---- MODULE Spec2Model ----
(***************************************************************************)
(* State-machine model of the GamePower wallet pallet                      *)
(* (src/wallet/src/lib.rs): the listing (escrow) and claim ledgers, the    *)
(* lock check built on the AllListings / AllClaims vectors, and the        *)
(* dispatchables transfer, burn, list, unlist, buy, claim, create_claim    *)
(* (Spec) and emote (SpecEmote).                                           *)
(*                                                                         *)
(* Execution model.  Dispatchables are declared with decl_module! and none *)
(* carries #[transactional]: a dispatchable that returns Err keeps every   *)
(* storage write it made before the error.  Only the value handed to a     *)
(* try_mutate closure is discarded when the closure returns Err.  A Rust   *)
(* panic (Option::unwrap on None) aborts the whole extrinsic and the block *)
(* builder discards its writes; it is modelled as result "Panic" with the  *)
(* storage unchanged.                                                      *)
(*                                                                         *)
(* The asset registry (orml_nft) and the currency (pallet_balances) are    *)
(* modelled by what the wallet's calls to them do: a transfer of a token   *)
(* succeeds iff `from` is its owner, burn removes the token, and the       *)
(* currency transfer follows the KeepAlive rules.  Signed origins are user *)
(* accounts; the escrow and claim-custody accounts are derived from the    *)
(* ModuleId, have no key and never sign.                                   *)
(***************************************************************************)
EXTENDS Integers, Sequences, FiniteSets, TLC

\* ------------------------------------------------------------------ bounds
\* stands for ListingId::MAX (u64): checked_add fails at this value
MaxListingId == 2
\* stands for ClaimId::MAX (u128): checked_add fails at this value
MaxClaimId == 2
\* emotes one account posts on one asset before the model stops it
MaxEmotes == 2
\* free balance of every user at genesis
InitialBalance == 600
\* a price no user can pay while staying above the existential deposit
HighPrice == 600

\* --------------------------------------------------------------- constants
ExistentialDeposit == 500
\* the registry universe of the test fixture: the class CLASS_ID and its
\* token TOKEN_ID can be created, the other ids name nothing
CLASS_ID == 0
CLASS_ID_NOT_EXIST == 1
TOKEN_ID == 0
TOKEN_ID_NOT_EXIST == 1
\* the price used by the tests
LowPrice == 100
BlockNumber == 1

\* the signing accounts of the test fixture
ALICE == 1
BOB == 2
Users == {ALICE, BOB}
\* T::ModuleId::get().into_account()
Escrow == BOB + 1
\* T::ModuleId::get().into_sub_account(100u32)
ClaimAccount == BOB + 2
Accounts == Users \cup {Escrow, ClaimAccount}
\* no owner: the token or class is not in the registry
NoOwner == 0
\* Option::None of a storage value
None == [none |-> TRUE]

ClassIds == {CLASS_ID, CLASS_ID_NOT_EXIST}
TokenIds == {TOKEN_ID, TOKEN_ID_NOT_EXIST}
Assets == ClassIds \X TokenIds
ListingIds == 0..MaxListingId
ClaimIds == 0..MaxClaimId
Prices == {LowPrice, HighPrice}
\* emote names as the tests pass them, and a byte string that is not UTF-8
FISH == "fish"
UNKNOWN_EMOTE == "fasdfasdfaish"
NOT_UTF8 == "bytes that are not UTF-8"
EmoteNames == {FISH, UNKNOWN_EMOTE, NOT_UTF8}

VARIABLES
    classOwner,      \* orml_nft Classes: class id -> owner or None
    nextTokenId,     \* orml_nft NextTokenId per class
    tokenOwner,      \* orml_nft Tokens: asset -> owning account or NoOwner
    free_balance,    \* pallet_balances free balance of each user
    Listings,        \* ListingId -> Listing or None
    ListingsByOwner, \* AccountId -> [vec: Vec<ListingId>] or None
    AllListings,     \* Vec<asset>
    NextListingId,
    ListingCount,
    OrderCount,
    OrderHistory,    \* asset -> Order or None
    OpenClaims,      \* (AccountId, ClaimId) -> Claim or None
    AllClaims,       \* Vec<asset>
    NextClaimId,
    Emotes           \* (asset, AccountId) -> Vec<emoji>

registry == <<classOwner, nextTokenId, tokenOwner>>
listingStore == <<Listings, ListingsByOwner, AllListings, NextListingId, ListingCount>>
orderStore == <<OrderCount, OrderHistory>>
claimStore == <<OpenClaims, AllClaims, NextClaimId>>
vars == <<classOwner, nextTokenId, tokenOwner, free_balance, Listings,
          ListingsByOwner, AllListings, NextListingId, ListingCount,
          OrderCount, OrderHistory, OpenClaims, AllClaims, NextClaimId,
          Emotes>>

\* ----------------------------------------------------------- Vec helpers
Range(s) == {s[i] : i \in 1..Len(s)}

\* Vec::contains
Contains(s, x) == x \in Range(s)

\* iter().position(|e| *e == x): 0 stands for None
Position(s, x) ==
    IF Contains(s, x)
    THEN CHOOSE i \in 1..Len(s) : s[i] = x /\ \A j \in 1..(i - 1) : s[j] # x
    ELSE 0

\* remove that takes nothing out
RemoveAt_none(s, i) == s

\* Vec::remove(index)
RemoveAt(s, i) == SubSeq(s, 1, i - 1) \o SubSeq(s, i + 1, Len(s))

\* retain that keeps every element
Retain_all(s, x) == s

\* Vec::retain(|&e| e != x)
Retain(s, x) == SelectSeq(s, LAMBDA e : e # x)

\* ------------------------------------------------------- asset registry
\* ownership check that accepts every caller
check_ownership_any(owner, asset) == TRUE

\* AssetModule::is_owner as used by check_ownership
check_ownership(owner, asset) == tokenOwner[asset] = owner

\* registry transfer that leaves the owner as it was
do_transfer_dropped(own, from, to, asset) == own

\* do_transfer: AssetModule::transfer(from, to, asset).ok(); Ok(true).
\* The registry moves the token iff `from` owns it; its error is dropped.
do_transfer(own, from, to, asset) ==
    IF own[asset] = from THEN [own EXCEPT ![asset] = to] ELSE own

\* Self::all_listings().contains(asset)
is_listed(asset) == Contains(AllListings, asset)

\* Self::all_claims().contains(asset)
is_claiming(asset) == Contains(AllClaims, asset)

is_locked(asset) == is_listed(asset) \/ is_claiming(asset)

\* --------------------------------------------------------------- currency
\* Currency::transfer(payer, payee, value, ExistenceRequirement::KeepAlive)
currency_transfer_result(bal, payer, payee, value) ==
    IF value = 0 \/ payer = payee THEN "Ok"
    ELSE IF bal[payer] < value THEN "InsufficientBalance"
    ELSE IF bal[payee] + value < ExistentialDeposit THEN "ExistentialDeposit"
    ELSE IF bal[payer] - value < ExistentialDeposit THEN "KeepAlive"
    ELSE "Ok"

\* currency transfer that debits the payer and credits nobody
currency_transfer_debit_only(bal, payer, payee, value) ==
    IF currency_transfer_result(bal, payer, payee, value) = "Ok" /\ payer # payee
    THEN [bal EXCEPT ![payer] = @ - value]
    ELSE bal

currency_transfer(bal, payer, payee, value) ==
    IF currency_transfer_result(bal, payer, payee, value) = "Ok" /\ payer # payee
    THEN [bal EXCEPT ![payer] = @ - value, ![payee] = @ + value]
    ELSE bal

\* ------------------------------------------------------------------- Init
Init ==
    /\ classOwner = [c \in ClassIds |-> NoOwner]
    /\ nextTokenId = [c \in ClassIds |-> 0]
    /\ tokenOwner = [a \in Assets |-> NoOwner]
    /\ free_balance = [u \in Users |-> InitialBalance]
    /\ Listings = [k \in ListingIds |-> None]
    /\ ListingsByOwner = [u \in Users |-> None]
    /\ AllListings = << >>
    /\ NextListingId = 0
    /\ ListingCount = 0
    /\ OrderCount = 0
    /\ OrderHistory = [a \in Assets |-> None]
    /\ OpenClaims = [rk \in Users \X ClaimIds |-> None]
    /\ AllClaims = << >>
    /\ NextClaimId = 0
    /\ Emotes = [key \in Assets \X Users |-> << >>]

\* ------------------------------------------------- registry set-up calls
\* OrmlNFT::create_class(&owner, ..): the next class id gets `owner`
create_class(owner) ==
    /\ classOwner[CLASS_ID] = NoOwner
    /\ classOwner' = [classOwner EXCEPT ![CLASS_ID] = owner]
    /\ UNCHANGED Emotes
    /\ UNCHANGED <<nextTokenId, tokenOwner, free_balance, listingStore,
                   orderStore, claimStore>>

\* OrmlNFT::mint(&to, class_id, ..): the class's next token id goes to `to`
mint(to, class_id) ==
    /\ classOwner[class_id] # NoOwner
    /\ nextTokenId[class_id] = TOKEN_ID
    /\ tokenOwner' = [tokenOwner EXCEPT ![<<class_id, nextTokenId[class_id]>>] = to]
    /\ nextTokenId' = [nextTokenId EXCEPT ![class_id] = @ + 1]
    /\ UNCHANGED Emotes
    /\ UNCHANGED <<classOwner, free_balance, listingStore, orderStore, claimStore>>

\* ---------------------------------------------------------- dispatchables
\* transfer result with the lock check ahead of the ownership check
transfer_result_lock_first(sender, asset, allow) ==
    IF ~allow THEN "TransfersNotAllowed"
    ELSE IF is_locked(asset) THEN "AssetLocked"
    ELSE IF ~check_ownership(sender, asset) THEN "NoPermission"
    ELSE "Ok"

transfer_result(sender, asset, allow) ==
    IF ~allow THEN "TransfersNotAllowed"
    ELSE IF ~check_ownership(sender, asset) THEN "NoPermission"
    ELSE IF is_locked(asset) THEN "AssetLocked"
    ELSE "Ok"

\* transfer that hands the asset to the escrow account, whoever `to` is
transfer_misdirected(sender, to, asset, allow) ==
    LET res == transfer_result(sender, asset, allow) IN
    /\ tokenOwner' = IF res = "Ok" THEN do_transfer(tokenOwner, sender, Escrow, asset)
                     ELSE tokenOwner
    /\ UNCHANGED Emotes
    /\ UNCHANGED <<classOwner, nextTokenId, free_balance, listingStore,
                   orderStore, claimStore>>

\* transfer(origin, to, asset); T::Transfer is the module's own handler
transfer(sender, to, asset, allow) ==
    LET res == transfer_result(sender, asset, allow) IN
    /\ tokenOwner' = IF res = "Ok" THEN do_transfer(tokenOwner, sender, to, asset)
                     ELSE tokenOwner
    /\ UNCHANGED Emotes
    /\ UNCHANGED <<classOwner, nextTokenId, free_balance, listingStore,
                   orderStore, claimStore>>

\* burn result with the ownership check ahead of the feature flag
burn_result_owner_first(sender, asset, allow) ==
    IF ~check_ownership(sender, asset) THEN "NoPermission"
    ELSE IF ~allow THEN "BurningNotAllowed"
    ELSE IF is_locked(asset) THEN "AssetLocked"
    ELSE "Ok"

burn_result(sender, asset, allow) ==
    IF ~allow THEN "BurningNotAllowed"
    ELSE IF ~check_ownership(sender, asset) THEN "NoPermission"
    ELSE IF is_locked(asset) THEN "AssetLocked"
    ELSE "Ok"

\* burn(origin, asset); T::Burn is the module's own handler (AssetModule::burn)
burn(sender, asset, allow) ==
    LET res == burn_result(sender, asset, allow) IN
    /\ tokenOwner' = IF res = "Ok" THEN [tokenOwner EXCEPT ![asset] = NoOwner]
                     ELSE tokenOwner
    /\ UNCHANGED Emotes
    /\ UNCHANGED <<classOwner, nextTokenId, free_balance, listingStore,
                   orderStore, claimStore>>

list_result(sender, asset, allow) ==
    IF ~allow THEN "EscrowNotAllowed"
    ELSE IF ~check_ownership(sender, asset) THEN "NoPermission"
    ELSE IF is_locked(asset) THEN "AssetLocked"
    ELSE IF NextListingId = MaxListingId THEN "NoAvailableListingId"
    ELSE "Ok"

\* list(origin, asset, price)
list(sender, asset, price, allow) ==
    LET res == list_result(sender, asset, allow)
        listing == [id |-> NextListingId, seller |-> sender,
                    asset |-> asset, price |-> price]
    IN
    \* the transfer into escrow precedes the id allocation and is kept when
    \* the allocation fails
    /\ tokenOwner' = IF res \in {"Ok", "NoAvailableListingId"}
                     THEN do_transfer(tokenOwner, sender, Escrow, asset)
                     ELSE tokenOwner
    /\ IF res = "Ok"
       THEN /\ NextListingId' = NextListingId + 1
            /\ ListingCount' = IF ListingCount = MaxListingId THEN ListingCount
                               ELSE ListingCount + 1
            /\ Listings' = [Listings EXCEPT ![NextListingId] = listing]
            /\ ListingsByOwner' =
                 [ListingsByOwner EXCEPT ![sender] =
                    IF @ = None THEN [vec |-> <<NextListingId>>]
                    ELSE [vec |-> Append(@.vec, NextListingId)]]
            /\ AllListings' = Append(AllListings, asset)
       ELSE UNCHANGED listingStore
    /\ UNCHANGED Emotes
    /\ UNCHANGED <<classOwner, nextTokenId, free_balance, orderStore, claimStore>>

\* do_unlist(sender, listing_data, is_buy): the stores after the call and
\* its result; "Panic" is the unwrap of a missing AllListings position
do_unlist(sender, listing_data, is_buy) ==
    LET own1 == IF ~is_buy
                THEN do_transfer(tokenOwner, Escrow, sender, listing_data.asset)
                ELSE tokenOwner
        cnt1 == IF ListingCount = 0 THEN ListingCount ELSE ListingCount - 1
        pos == Position(AllListings, listing_data.asset)
        all1 == IF pos = 0 THEN AllListings ELSE RemoveAt(AllListings, pos)
        owner_data == ListingsByOwner[listing_data.seller]
    IN
    [res |-> IF pos = 0 THEN "Panic"
             ELSE IF owner_data = None THEN "ListingNotFound"
             ELSE "Ok",
     tokenOwner |-> own1,
     ListingCount |-> cnt1,
     AllListings |-> all1,
     ListingsByOwner |->
        IF owner_data = None THEN ListingsByOwner
        ELSE [ListingsByOwner EXCEPT ![listing_data.seller] =
                 [vec |-> Retain(@.vec, listing_data.id)]]]

\* unlist result without the comparison of the caller with the seller
unlist_result_any_seller(sender, listing_id, allow) ==
    LET data == Listings[listing_id] IN
    IF ~allow THEN "EscrowNotAllowed"
    ELSE IF data = None THEN "ListingNotFound"
    ELSE do_unlist(sender, data, FALSE).res

unlist_result(sender, listing_id, allow) ==
    LET data == Listings[listing_id] IN
    IF ~allow THEN "EscrowNotAllowed"
    ELSE IF data = None THEN "ListingNotFound"
    ELSE IF sender # data.seller THEN "NoPermission"
    ELSE do_unlist(sender, data, FALSE).res

\* unlist(origin, listing_id)
unlist(sender, listing_id, allow) ==
    LET data == Listings[listing_id]
        un == do_unlist(sender, data, FALSE)
        res == unlist_result(sender, listing_id, allow)
        \* do_unlist ran to its end or stopped at the owner index
        ran == res \in {"Ok", "ListingNotFound"} /\ allow /\ data # None
    IN
    /\ tokenOwner' = IF ran THEN un.tokenOwner ELSE tokenOwner
    /\ ListingCount' = IF ran THEN un.ListingCount ELSE ListingCount
    /\ AllListings' = IF ran THEN un.AllListings ELSE AllListings
    /\ ListingsByOwner' = IF ran THEN un.ListingsByOwner ELSE ListingsByOwner
    \* try_mutate_exists writes the record back, Listings::remove deletes it
    /\ Listings' = IF res = "Ok" THEN [Listings EXCEPT ![listing_id] = None]
                   ELSE Listings
    /\ UNCHANGED Emotes
    /\ UNCHANGED <<classOwner, nextTokenId, free_balance, NextListingId,
                   orderStore, claimStore>>

\* buy result without the lookup of the listing record
buy_result_no_lookup(sender, listing_id, allow) ==
    IF ~allow THEN "EscrowNotAllowed" ELSE "Ok"

buy_result(sender, listing_id, allow) ==
    LET data == Listings[listing_id]
        un == do_unlist(data.seller, data, TRUE)
    IN
    IF ~allow THEN "EscrowNotAllowed"
    ELSE IF data = None THEN "ListingNotFound"
    ELSE IF un.res # "Ok" THEN un.res
    ELSE currency_transfer_result(free_balance, sender, data.seller, data.price)

\* buy that records no order
buy_keep_history(sender, listing_id, allow) ==
    LET data == Listings[listing_id]
        un == do_unlist(data.seller, data, TRUE)
        res == buy_result(sender, listing_id, allow)
        ran == allow /\ data # None /\ un.res # "Panic"
    IN
    /\ ListingCount' = IF ran THEN un.ListingCount ELSE ListingCount
    /\ AllListings' = IF ran THEN un.AllListings ELSE AllListings
    /\ ListingsByOwner' = IF ran THEN un.ListingsByOwner ELSE ListingsByOwner
    /\ IF res = "Ok"
       THEN /\ free_balance' = currency_transfer(free_balance, sender,
                                                 data.seller, data.price)
            /\ tokenOwner' = do_transfer(tokenOwner, Escrow, sender, data.asset)
            /\ OrderCount' = OrderCount + 1
            /\ Listings' = [Listings EXCEPT ![listing_id] = None]
       ELSE UNCHANGED <<free_balance, tokenOwner, OrderCount, Listings>>
    /\ UNCHANGED Emotes
    /\ UNCHANGED <<classOwner, nextTokenId, NextListingId, claimStore, OrderHistory>>

\* buy(origin, listing_id)
buy(sender, listing_id, allow) ==
    LET data == Listings[listing_id]
        un == do_unlist(data.seller, data, TRUE)
        res == buy_result(sender, listing_id, allow)
        \* do_unlist was entered and did not panic: its writes are kept
        ran == allow /\ data # None /\ un.res # "Panic"
        order == [listing |-> data, buyer |-> sender, block |-> BlockNumber]
    IN
    /\ ListingCount' = IF ran THEN un.ListingCount ELSE ListingCount
    /\ AllListings' = IF ran THEN un.AllListings ELSE AllListings
    /\ ListingsByOwner' = IF ran THEN un.ListingsByOwner ELSE ListingsByOwner
    /\ IF res = "Ok"
       THEN /\ free_balance' = currency_transfer(free_balance, sender,
                                                 data.seller, data.price)
            /\ tokenOwner' = do_transfer(tokenOwner, Escrow, sender, data.asset)
            /\ OrderCount' = OrderCount + 1
            /\ OrderHistory' = [OrderHistory EXCEPT ![data.asset] = order]
            /\ Listings' = [Listings EXCEPT ![listing_id] = None]
       ELSE UNCHANGED <<free_balance, tokenOwner, OrderCount, OrderHistory, Listings>>
    /\ UNCHANGED Emotes
    /\ UNCHANGED <<classOwner, nextTokenId, NextListingId, claimStore>>

\* claim result that honours a record stored under any receiver
claim_result_any_receiver(sender, claim_id, allow, approve) ==
    IF ~allow THEN "ClaimingNotAllowed"
    ELSE IF \A r \in Users : OpenClaims[<<r, claim_id>>] = None THEN "ClaimNotFound"
    ELSE IF ~approve THEN "ClaimCancelled"
    ELSE "Ok"

\* "Panic" is the unwrap of a missing AllClaims position
claim_result(sender, claim_id, allow, approve) ==
    LET data == OpenClaims[<<sender, claim_id>>] IN
    IF ~allow THEN "ClaimingNotAllowed"
    ELSE IF data = None THEN "ClaimNotFound"
    ELSE IF ~approve THEN "ClaimCancelled"
    ELSE IF Position(AllClaims, data.asset) = 0 THEN "Panic"
    ELSE "Ok"

\* claim(origin, claim_id); `approve` is the answer of the T::Claim hook
claim(sender, claim_id, allow, approve) ==
    LET data == OpenClaims[<<sender, claim_id>>]
        pos == Position(AllClaims, data.asset)
        res == claim_result(sender, claim_id, allow, approve)
    IN
    /\ IF res = "Ok"
       THEN /\ tokenOwner' = do_transfer(tokenOwner, ClaimAccount, sender, data.asset)
            /\ AllClaims' = RemoveAt(AllClaims, pos)
            \* OpenClaims::remove runs inside the try_mutate closure; on Ok
            \* try_mutate stores the closure's value, still Some(data), again
            /\ OpenClaims' = [[OpenClaims EXCEPT ![<<sender, claim_id>>] = None]
                                EXCEPT ![<<sender, claim_id>>] = data]
       ELSE UNCHANGED <<tokenOwner, AllClaims, OpenClaims>>
    /\ UNCHANGED Emotes
    /\ UNCHANGED <<classOwner, nextTokenId, free_balance, listingStore,
                   orderStore, NextClaimId>>

\* do_create_claim that hands out NextClaimId without advancing it
do_create_claim_reuse(owner, receiver, asset) ==
    LET claim_data == [receiver |-> receiver, asset |-> asset]
    IN
    [res |-> "Ok",
     tokenOwner |-> do_transfer(tokenOwner, owner, ClaimAccount, asset),
     NextClaimId |-> NextClaimId,
     OpenClaims |-> [OpenClaims EXCEPT ![<<receiver, NextClaimId>>] = claim_data],
     AllClaims |-> Append(AllClaims, asset)]

\* do_create_claim(owner, receiver, asset): result and stores after the call
do_create_claim(owner, receiver, asset) ==
    LET own1 == do_transfer(tokenOwner, owner, ClaimAccount, asset)
        claim_data == [receiver |-> receiver, asset |-> asset]
    IN
    IF NextClaimId = MaxClaimId
    THEN [res |-> "NoAvailableClaimId", tokenOwner |-> own1,
          NextClaimId |-> NextClaimId, OpenClaims |-> OpenClaims,
          AllClaims |-> AllClaims]
    ELSE [res |-> "Ok", tokenOwner |-> own1,
          NextClaimId |-> NextClaimId + 1,
          OpenClaims |-> [OpenClaims EXCEPT ![<<receiver, NextClaimId>>] = claim_data],
          AllClaims |-> Append(AllClaims, asset)]

create_claim_result(sender, receiver, asset, allow) ==
    IF ~allow THEN "ClaimingNotAllowed"
    ELSE IF ~check_ownership(sender, asset) THEN "NoPermission"
    ELSE IF classOwner[asset[1]] = NoOwner THEN "AssetNotFound"
    ELSE IF sender # classOwner[asset[1]] THEN "NoPermission"
    ELSE do_create_claim(sender, receiver, asset).res

\* create_claim(origin, receiver, asset)
create_claim(sender, receiver, asset, allow) ==
    LET cc == do_create_claim(sender, receiver, asset)
        res == create_claim_result(sender, receiver, asset, allow)
        ran == res \in {"Ok", "NoAvailableClaimId"}
    IN
    /\ tokenOwner' = IF ran THEN cc.tokenOwner ELSE tokenOwner
    /\ NextClaimId' = IF ran THEN cc.NextClaimId ELSE NextClaimId
    /\ OpenClaims' = IF ran THEN cc.OpenClaims ELSE OpenClaims
    /\ AllClaims' = IF ran THEN cc.AllClaims ELSE AllClaims
    /\ UNCHANGED Emotes
    /\ UNCHANGED <<classOwner, nextTokenId, free_balance, listingStore, orderStore>>

\* str::from_utf8(&emote): Err for bytes that are not UTF-8
from_utf8_is_ok(emote_name) == emote_name # NOT_UTF8

\* emojis::lookup(str_emote): the emoji of a recognised name, or None
emojis_lookup(str_emote) ==
    IF str_emote = FISH THEN [emoji |-> "U+1F41F"] ELSE None

\* "Panic" is the unwrap of the from_utf8 error
emote_result(sender, asset, emote_name) ==
    IF tokenOwner[asset] = NoOwner THEN "AssetNotFound"
    ELSE IF ~from_utf8_is_ok(emote_name) THEN "Panic"
    ELSE IF emojis_lookup(emote_name) = None THEN "InvalidEmote"
    ELSE "Ok"

\* emote(origin, asset, emote)
emote(sender, asset, emote_name) ==
    LET res == emote_result(sender, asset, emote_name) IN
    /\ res = "Ok" => Len(Emotes[<<asset, sender>>]) < MaxEmotes
    /\ Emotes' = IF res = "Ok"
                 THEN [Emotes EXCEPT ![<<asset, sender>>] =
                         Append(@, emojis_lookup(emote_name).emoji)]
                 ELSE Emotes
    /\ UNCHANGED <<registry, free_balance, listingStore, orderStore, claimStore>>

\* ------------------------------------------------------------ state machine
Next ==
    \/ \E u \in Users : create_class(u)
    \/ \E u \in Users, c \in ClassIds : mint(u, c)
    \/ \E u \in Users, to \in Accounts, a \in Assets, allow \in BOOLEAN :
          transfer(u, to, a, allow)
    \/ \E u \in Users, a \in Assets, allow \in BOOLEAN : burn(u, a, allow)
    \/ \E u \in Users, a \in Assets, p \in Prices, allow \in BOOLEAN :
          list(u, a, p, allow)
    \/ \E u \in Users, k \in ListingIds, allow \in BOOLEAN : unlist(u, k, allow)
    \/ \E u \in Users, k \in ListingIds, allow \in BOOLEAN : buy(u, k, allow)
    \/ \E u \in Users, k \in ClaimIds, allow \in BOOLEAN, approve \in BOOLEAN :
          claim(u, k, allow, approve)
    \/ \E u \in Users, r \in Users, a \in Assets, allow \in BOOLEAN :
          create_claim(u, r, a, allow)

Spec == Init /\ [][Next]_vars

\* The wallet with its emote dispatchable.  emote reads only the registry and
\* writes only Emotes, which no other dispatchable reads or writes, so Spec
\* is this specification with Emotes left out of the picture.
NextEmote ==
    \/ Next
    \/ \E u \in Users, a \in Assets, e \in EmoteNames : emote(u, a, e)

SpecEmote == Init /\ [][NextEmote]_vars

TypeOK ==
    /\ tokenOwner \in [Assets -> Accounts \cup {NoOwner}]
    /\ NextListingId \in 0..MaxListingId
    /\ NextClaimId \in 0..MaxClaimId
    /\ ListingCount \in 0..MaxListingId
\* ------------------------------------------------------------ properties
ListingKeys == {k \in ListingIds : Listings[k] # None}
ClaimKeys == {rk \in Users \X ClaimIds : OpenClaims[rk] # None}
ListedAssets == {Listings[k].asset : k \in ListingKeys}
ClaimedAssets == {OpenClaims[rk].asset : rk \in ClaimKeys}
\* the asset is in the lock view
InLockView(a) == a \in Range(AllListings) \/ a \in Range(AllClaims)
\* errors raised by an ensure! that precedes every storage write
CleanRejections ==
    {"TransfersNotAllowed", "BurningNotAllowed", "EscrowNotAllowed",
     "ClaimingNotAllowed", "NoPermission", "AssetLocked", "AssetNotFound"}
\* errors of Currency::transfer
PaymentErrors == {"InsufficientBalance", "ExistentialDeposit", "KeepAlive"}

\* C1: in every reachable state is_locked(A) holds iff A is the asset of a
\* Listings record or of an OpenClaims record: AllListings holds exactly the
\* assets of the Listings records and AllClaims exactly those of the
\* OpenClaims records.
C1_LockViewMatchesStores ==
    /\ Range(AllListings) = ListedAssets
    /\ Range(AllClaims) = ClaimedAssets
    /\ \A a \in Assets : is_locked(a) <=> a \in ListedAssets \cup ClaimedAssets

\* for an asset in the lock view, transfer, burn, list and create_claim by
\* any account end in an error raised before the first storage write
C2_Rejected ==
    \A a \in Assets : InLockView(a) =>
        \A u \in Users, allow \in BOOLEAN :
            /\ transfer_result(u, a, allow) \in CleanRejections
            /\ burn_result(u, a, allow) \in CleanRejections
            /\ list_result(u, a, allow) \in CleanRejections
            /\ \A r \in Users : create_claim_result(u, r, a, allow) \in CleanRejections

\* no state-changing step is one of these calls on an asset in the lock view
C2_NoStep ==
    \/ UNCHANGED vars
    \/ \A a \in Assets : InLockView(a) =>
         \A u \in Users, allow \in BOOLEAN :
            /\ \A to \in Accounts : ~transfer(u, to, a, allow)
            /\ ~burn(u, a, allow)
            /\ \A p \in Prices : ~list(u, a, p, allow)
            /\ \A r \in Users : ~create_claim(u, r, a, allow)

\* C2: for an asset that is locked (in AllListings or AllClaims), every
\* transfer, burn, list and create_claim on it, by any account, is rejected
\* and leaves the holder, the listing and claim stores and the counters
\* unchanged.
C2_LockedAssetRejected == []C2_Rejected /\ [][C2_NoStep]_vars

\* a locked asset sits in custody and a user's transfer of it is refused
C2_Witness ==
    \E a \in Assets, u \in Users :
        /\ InLockView(a)
        /\ tokenOwner[a] \in {Escrow, ClaimAccount}
        /\ transfer_result(u, a, TRUE) = "NoPermission"
        /\ create_claim_result(u, u, a, TRUE) = "NoPermission"

\* C3: in every reachable state the asset of every Listings record is held
\* by the escrow account.
C3_ListedAssetInEscrow ==
    \A k \in ListingKeys : tokenOwner[Listings[k].asset] = Escrow

\* a listing record exists
C3_Witness == \E k \in ListingKeys : tokenOwner[Listings[k].asset] = Escrow

\* C4: in every reachable state the asset of every OpenClaims record is held
\* by the claim-custody account.
C4_ClaimedAssetInCustody ==
    \A rk \in ClaimKeys : tokenOwner[OpenClaims[rk].asset] = ClaimAccount

\* C5: in every reachable state at most one Listings record names any given
\* asset and AllListings never contains the same asset twice.
C5_OneListingPerAsset ==
    /\ \A k1, k2 \in ListingKeys :
          Listings[k1].asset = Listings[k2].asset => k1 = k2
    /\ \A i, j \in 1..Len(AllListings) :
          AllListings[i] = AllListings[j] => i = j

\* an asset is listed after an earlier listing id was already allocated
C5_Witness == \E k \in ListingKeys : k > 0 /\ Listings[k].asset \in Range(AllListings)

\* C6: in every reachable state no asset is both in AllListings and in
\* AllClaims, and no asset is the subject of two open claims.
C6_SingleLockReason ==
    /\ Range(AllListings) \cap Range(AllClaims) = {}
    /\ \A rk1, rk2 \in ClaimKeys :
          OpenClaims[rk1].asset = OpenClaims[rk2].asset => rk1 = rk2

\* C7: in every reachable state an asset held by the escrow account or by
\* the claim-custody account is locked.
C7_CustodyImpliesLocked ==
    \A a \in Assets : tokenOwner[a] \in {Escrow, ClaimAccount} => is_locked(a)
\* C8 as stated: every buy moves both the payment and the asset or neither,
\* and after every successful buy the seller's balance is its previous
\* balance plus the price and the buyer's its previous balance minus the price.
C8_BuyExactForEveryBuyer ==
    [][\/ UNCHANGED vars
       \/ \A u \in Users, k \in ListingKeys : buy(u, k, TRUE) =>
            LET l == Listings[k] IN
            IF buy_result(u, k, TRUE) = "Ok"
            THEN /\ tokenOwner'[l.asset] = u
                 /\ free_balance'[l.seller] = free_balance[l.seller] + l.price
                 /\ free_balance'[u] = free_balance[u] - l.price
            ELSE /\ tokenOwner' = tokenOwner
                 /\ free_balance' = free_balance]_vars

\* C8: every buy moves both the payment and the asset or neither; after a
\* successful buy by a buyer other than the seller the seller's balance is
\* its previous balance plus the price and the buyer's its previous balance
\* minus the price; when the buyer is the seller the balances are unchanged.
C8_BuyAtomic ==
    [][\/ UNCHANGED vars
       \/ \A u \in Users, k \in ListingKeys : buy(u, k, TRUE) =>
            LET l == Listings[k] IN
            IF buy_result(u, k, TRUE) = "Ok"
            THEN /\ tokenOwner'[l.asset] = u
                 /\ u # l.seller =>
                      /\ free_balance'[l.seller] = free_balance[l.seller] + l.price
                      /\ free_balance'[u] = free_balance[u] - l.price
                 /\ u = l.seller => free_balance' = free_balance
                 /\ \A v \in Users \ {u, l.seller} :
                      free_balance'[v] = free_balance[v]
            ELSE /\ tokenOwner' = tokenOwner
                 /\ free_balance' = free_balance]_vars

\* a sale to another account has been paid and delivered
C8_Witness ==
    \E a \in Assets :
        /\ OrderHistory[a] # None
        /\ OrderHistory[a].buyer # OrderHistory[a].listing.seller
        /\ free_balance[OrderHistory[a].listing.seller] > InitialBalance
        /\ free_balance[OrderHistory[a].buyer] < InitialBalance

\* C9: when the currency payment inside buy fails, the Listings record,
\* AllListings, ListingsByOwner, ListingCount, OrderCount, OrderHistory, the
\* asset's holder and the balances are as before the call.
C9_FailedPaymentChangesNothing ==
    [][\/ UNCHANGED vars
       \/ \A u \in Users, k \in ListingKeys :
            (buy_result(u, k, TRUE) \in PaymentErrors /\ buy(u, k, TRUE)) =>
               UNCHANGED <<Listings, AllListings, ListingsByOwner, ListingCount,
                           OrderCount, OrderHistory, tokenOwner, free_balance>>]_vars

\* C10: claim(R, k) right after the create_claim that allocated k leaves the
\* asset held by R, no OpenClaims record under (R, k), the asset absent from
\* AllClaims and nothing of it in the claim-custody account.
C10_ClaimRoundTrip ==
    [][\/ UNCHANGED vars
       \/ \A r \in Users, k \in ClaimIds :
            LET c == OpenClaims[<<r, k>>] IN
            ( /\ c # None
              /\ k = NextClaimId - 1
              /\ Contains(AllClaims, c.asset)
              /\ tokenOwner[c.asset] = ClaimAccount
              /\ claim(r, k, TRUE, TRUE) ) =>
               /\ tokenOwner'[c.asset] = r
               /\ OpenClaims'[<<r, k>>] = None
               /\ ~Contains(AllClaims', c.asset)]_vars

\* C11: once claim(R, k) has succeeded, every later claim(R, k) fails with
\* ClaimNotFound and moves no asset: the successful step leaves the id
\* answering ClaimNotFound, and an allocated id that answers ClaimNotFound
\* answers it ever after.
C11_ClaimRedeemedOnce ==
    [][\/ UNCHANGED vars
       \/ \A r \in Users, k \in ClaimIds :
            /\ (claim_result(r, k, TRUE, TRUE) = "Ok" /\ claim(r, k, TRUE, TRUE)) =>
                  claim_result(r, k, TRUE, TRUE)' = "ClaimNotFound"
            /\ (k < NextClaimId /\ claim_result(r, k, TRUE, TRUE) = "ClaimNotFound") =>
                  claim_result(r, k, TRUE, TRUE)' = "ClaimNotFound"]_vars

\* The listing the last successful list allocated, still open: its record is
\* stored under k with seller s, its asset is indexed and held in escrow.
JustListed(s, k) ==
    /\ k = NextListingId - 1
    /\ Listings[k] # None
    /\ Listings[k].seller = s
    /\ Contains(AllListings, Listings[k].asset)
    /\ tokenOwner[Listings[k].asset] = Escrow

\* C12: list(S, A, p) allocating k followed by unlist(S, k) restores the
\* state before the list except for NextListingId: the list raises
\* ListingCount by one and leaves unlist(S, k) succeeding, and that unlist
\* returns A to S, lowers ListingCount by one again, removes the record under
\* k, removes A from AllListings and k from ListingsByOwner[S].
C12_ListUnlistRoundTrip ==
    [][\/ UNCHANGED vars
       \/ /\ \A s \in Users, a \in Assets, p \in Prices, k \in ListingIds :
               (k = NextListingId /\ list_result(s, a, TRUE) = "Ok"
                                  /\ list(s, a, p, TRUE)) =>
                  /\ JustListed(s, k)'
                  /\ ListingCount' = ListingCount + 1
                  /\ unlist_result(s, k, TRUE)' = "Ok"
          /\ \A s \in Users, k \in ListingIds :
               (JustListed(s, k) /\ unlist(s, k, TRUE)) =>
                  /\ tokenOwner'[Listings[k].asset] = s
                  /\ ListingCount' = ListingCount - 1
                  /\ Listings'[k] = None
                  /\ ~Contains(AllListings', Listings[k].asset)
                  /\ ~Contains(ListingsByOwner'[s].vec, k)
                  /\ NextListingId' = NextListingId
                  /\ UNCHANGED <<classOwner, nextTokenId, free_balance,
                                 orderStore, claimStore>>]_vars

\* A listing has been created and withdrawn again by its seller.
C12_Witness ==
    /\ NextListingId > 0
    /\ Listings[NextListingId - 1] = None
    /\ OrderCount = 0
    /\ ListingCount = 0
    /\ AllListings = << >>
    /\ \E s \in Users : ListingsByOwner[s] # None /\ ListingsByOwner[s].vec = << >>

\* Every stored listing carries the id it is stored under, and every stored
\* listing or claim id lies below the counter that allocates it.
C13_IdsBelowCounters ==
    /\ \A k \in ListingKeys : k < NextListingId /\ Listings[k].id = k
    /\ \A key \in ClaimKeys : key[2] < NextClaimId

C13_CountersStep ==
    \/ UNCHANGED vars
    \/ /\ NextListingId' >= NextListingId
       /\ NextClaimId' >= NextClaimId
       /\ \A s \in Users, a \in Assets, p \in Prices, k \in ListingIds :
            (k = NextListingId /\ list_result(s, a, TRUE) = "Ok"
                               /\ list(s, a, p, TRUE)) =>
               /\ NextListingId' = k + 1
               /\ Listings[k] = None
               /\ Listings'[k] # None /\ Listings'[k].id = k
               /\ \A j \in ListingIds \ {k} : Listings'[j] = Listings[j]
       /\ \A c \in Users, r \in Users, a \in Assets, k \in ClaimIds :
            (k = NextClaimId /\ create_claim_result(c, r, a, TRUE) = "Ok"
                             /\ create_claim(c, r, a, TRUE)) =>
               /\ NextClaimId' = k + 1
               /\ \A u \in Users : OpenClaims[<<u, k>>] = None
               /\ OpenClaims'[<<r, k>>] # None
               /\ \A key \in (Users \X ClaimIds) \ {<<r, k>>} :
                     OpenClaims'[key] = OpenClaims[key]

\* C13: NextListingId and NextClaimId start at 0 and never decrease; each
\* successful list (create_claim) raises its counter by exactly 1 and stores
\* the new record under the value the counter had before, which no record
\* holds at that time; stored ids always lie below their counter, so an id is
\* never handed out twice, also after unlist, buy or claim.
C13_IdMonotonicity ==
    /\ NextListingId = 0 /\ NextClaimId = 0
    /\ []C13_IdsBelowCounters
    /\ [][C13_CountersStep]_vars

\* Both counters have handed out two ids and the first listing is gone again.
C13_Witness ==
    /\ NextListingId >= 2
    /\ NextClaimId >= 2
    /\ Listings[0] = None

\* C14: when NextListingId (NextClaimId) is at its maximum, list
\* (create_claim) fails with NoAvailableListingId (NoAvailableClaimId) and
\* the counter, the asset's holder and every store are as before the call.
C14_OverflowCommitsNothing ==
    [][\/ UNCHANGED vars
       \/ /\ \A s \in Users, a \in Assets, p \in Prices :
               (NextListingId = MaxListingId /\ check_ownership(s, a)
                                             /\ list(s, a, p, TRUE)) =>
                  list_result(s, a, TRUE) = "NoAvailableListingId" /\ UNCHANGED vars
          /\ \A c \in Users, r \in Users, a \in Assets :
               (NextClaimId = MaxClaimId /\ check_ownership(c, a)
                                         /\ classOwner[a[1]] = c
                                         /\ create_claim(c, r, a, TRUE)) =>
                  create_claim_result(c, r, a, TRUE) = "NoAvailableClaimId"
                  /\ UNCHANGED vars]_vars

\* C15: a successful buy(B, k) of a listing {seller S, asset A, price p}
\* leaves A held by B, removes the Listings record under k, A from
\* AllListings and k from ListingsByOwner[S], lowers ListingCount by exactly
\* 1, raises OrderCount by exactly 1 and leaves A unlocked.
C15_BuyEffects ==
    [][\/ UNCHANGED vars
       \/ \A b \in Users, k \in ListingKeys, s \in Users, a \in Assets :
            (Listings[k].seller = s /\ Listings[k].asset = a
               /\ buy_result(b, k, TRUE) = "Ok" /\ buy(b, k, TRUE)) =>
               /\ tokenOwner'[a] = b
               /\ Listings'[k] = None
               /\ ~Contains(AllListings', a)
               /\ ~Contains(ListingsByOwner'[s].vec, k)
               /\ ListingCount' = ListingCount - 1
               /\ OrderCount' = OrderCount + 1
               /\ ~is_locked(a)']_vars

\* A buy has succeeded: the first order is recorded and its buyer holds the
\* asset, which is in no listing.
C15_Witness ==
    /\ OrderCount = 1
    /\ ListingCount = 0
    /\ \E a \in Assets :
         /\ OrderHistory[a] # None
         /\ tokenOwner[a] = OrderHistory[a].buyer
         /\ ~is_locked(a)

\* C16: a successful list(S, A, p), k being NextListingId before the call,
\* moves A from S to the escrow account, stores Listings[k] = {id k, seller
\* S, asset A, price p}, appends A to AllListings and k to
\* ListingsByOwner[S], raises ListingCount and NextListingId by exactly 1
\* each and makes is_locked(A) true.
C16_ListEffects ==
    [][\/ UNCHANGED vars
       \/ \A s \in Users, a \in Assets, p \in Prices, k \in ListingIds :
            (k = NextListingId /\ list_result(s, a, TRUE) = "Ok"
                               /\ list(s, a, p, TRUE)) =>
               /\ tokenOwner[a] = s
               /\ tokenOwner'[a] = Escrow
               /\ Listings'[k] = [id |-> k, seller |-> s, asset |-> a, price |-> p]
               /\ AllListings' = Append(AllListings, a)
               /\ ListingsByOwner'[s] # None
               /\ ListingsByOwner'[s].vec =
                     Append(IF ListingsByOwner[s] = None THEN << >>
                            ELSE ListingsByOwner[s].vec, k)
               /\ ListingCount' = ListingCount + 1
               /\ NextListingId' = NextListingId + 1
               /\ is_locked(a)']_vars

\* A seller's second listing is open: its id was appended to an owner index
\* that already existed.
C16_Witness ==
    \E s \in Users, k \in ListingKeys :
       /\ k > 0
       /\ Listings[k].seller = s
       /\ Listings[k].price = HighPrice
       /\ tokenOwner[Listings[k].asset] = Escrow
       /\ ListingsByOwner[s] = [vec |-> <<k>>]
       /\ AllListings = <<Listings[k].asset>>
       /\ ListingCount = 1

\* C17: a successful create_claim(C, R, A), k being NextClaimId before the
\* call, moves A from C to the claim-custody account, stores
\* OpenClaims[(R, k)] = {receiver R, asset A}, appends A to AllClaims, raises
\* NextClaimId by exactly 1, makes is_locked(A) true and changes no listing
\* store or listing counter.
C17_CreateClaimEffects ==
    [][\/ UNCHANGED vars
       \/ \A c \in Users, r \in Users, a \in Assets, k \in ClaimIds :
            (k = NextClaimId /\ create_claim_result(c, r, a, TRUE) = "Ok"
                             /\ create_claim(c, r, a, TRUE)) =>
               /\ tokenOwner[a] = c
               /\ tokenOwner'[a] = ClaimAccount
               /\ OpenClaims'[<<r, k>>] = [receiver |-> r, asset |-> a]
               /\ AllClaims' = Append(AllClaims, a)
               /\ NextClaimId' = NextClaimId + 1
               /\ is_locked(a)'
               /\ UNCHANGED listingStore]_vars

\* A claim made out to the other user is open and its asset is in custody.
C17_Witness ==
    \E c \in Users, r \in Users, k \in ClaimIds, a \in Assets :
       /\ r # c
       /\ classOwner[a[1]] = c
       /\ OpenClaims[<<r, k>>] = [receiver |-> r, asset |-> a]
       /\ k = NextClaimId - 1
       /\ tokenOwner[a] = ClaimAccount
       /\ AllClaims = <<a>>

C18_Results ==
    \A c \in Users, r \in Users, a \in Assets :
       LET res == create_claim_result(c, r, a, TRUE) IN
       /\ res = "Ok" => (tokenOwner[a] = c /\ classOwner[a[1]] = c)
       /\ (tokenOwner[a] = c /\ classOwner[a[1]] # c) => res = "NoPermission"
       /\ (classOwner[a[1]] = c /\ tokenOwner[a] # c) => res = "NoPermission"

C18_NoStep ==
    \/ UNCHANGED vars
    \/ \A c \in Users, r \in Users, a \in Assets :
         ((tokenOwner[a] # c \/ classOwner[a[1]] # c) /\ create_claim(c, r, a, TRUE))
            => UNCHANGED vars

\* C18: with claiming enabled, create_claim succeeds only if the caller is
\* both the registry owner of the token and the owner of its class; a caller
\* who holds the token without owning the class and a class owner who does
\* not hold the token each get NoPermission, and no state changes.
C18_DualAuthorization == []C18_Results /\ [][C18_NoStep]_vars

\* The token is held by a user who is not the owner of its class: that holder
\* and the class owner are the two callers the checks turn away.
C18_Witness ==
    \E c \in Users, h \in Users, a \in Assets :
       /\ c # h
       /\ classOwner[a[1]] = c
       /\ tokenOwner[a] = h
       /\ create_claim_result(c, h, a, TRUE) = "NoPermission"
       /\ create_claim_result(h, c, a, TRUE) = "NoPermission"

C19_Results ==
    \A u \in Users, k \in ClaimIds, approve \in BOOLEAN :
       /\ claim_result(u, k, TRUE, approve) = "Ok" => OpenClaims[<<u, k>>] # None
       /\ OpenClaims[<<u, k>>] = None =>
              claim_result(u, k, TRUE, approve) = "ClaimNotFound"

C19_NoStep ==
    \/ UNCHANGED vars
    \/ \A u \in Users, k \in ClaimIds, approve \in BOOLEAN :
         (OpenClaims[<<u, k>>] = None /\ claim(u, k, TRUE, approve)) => UNCHANGED vars

\* C19: with claiming enabled, claim(caller, k) succeeds only if an
\* OpenClaims record is stored under exactly (caller, k); otherwise it fails
\* with ClaimNotFound and changes nothing, so an account other than the
\* receiver cannot redeem a claim by presenting its id.
C19_ClaimKeyedByReceiver == []C19_Results /\ [][C19_NoStep]_vars

\* A claim is open for one user and the other user, who has no record under
\* that id, is turned away with ClaimNotFound.
C19_Witness ==
    \E r \in Users, u \in Users, k \in ClaimIds :
       /\ u # r
       /\ OpenClaims[<<r, k>>] # None
       /\ Contains(AllClaims, OpenClaims[<<r, k>>].asset)
       /\ OpenClaims[<<u, k>>] = None
       /\ claim_result(u, k, TRUE, TRUE) = "ClaimNotFound"
       /\ claim_result(r, k, TRUE, TRUE) = "Ok"

\* C20: a claim(R, k) the hook vetoes fails with ClaimCancelled and changes
\* nothing, so in the state it is made in (and leaves) the asset is in the
\* claim-custody account, the OpenClaims record and the AllClaims entry are
\* there, and claim(R, k) with the hook approving succeeds.
C20_VetoedClaimRetryable ==
    \A r \in Users, k \in ClaimIds :
       claim_result(r, k, TRUE, FALSE) = "ClaimCancelled" =>
          /\ OpenClaims[<<r, k>>] # None
          /\ tokenOwner[OpenClaims[<<r, k>>].asset] = ClaimAccount
          /\ Contains(AllClaims, OpenClaims[<<r, k>>].asset)
          /\ claim_result(r, k, TRUE, TRUE) = "Ok"

\* C21 as stated: on an asset with an open claim transfer, burn and list
\* each fail with AssetLocked.
C21_ClaimedAssetAssetLocked ==
    \A a \in Assets, u \in Users :
       is_claiming(a) =>
          /\ transfer_result(u, a, TRUE) = "AssetLocked"
          /\ burn_result(u, a, TRUE) = "AssetLocked"
          /\ list_result(u, a, TRUE) = "AssetLocked"

C21_Results ==
    \A a \in Assets, u \in Users :
       is_claiming(a) =>
          /\ transfer_result(u, a, TRUE) = "NoPermission"
          /\ burn_result(u, a, TRUE) = "NoPermission"
          /\ list_result(u, a, TRUE) = "NoPermission"

C21_NoStep ==
    \/ UNCHANGED vars
    \/ \A a \in Assets, u \in Users :
         (is_claiming(a) /\ ( \/ \E to \in Accounts : transfer(u, to, a, TRUE)
                              \/ burn(u, a, TRUE)
                              \/ \E p \in Prices : list(u, a, p, TRUE) ))
            => UNCHANGED vars

\* C21, amended: on an asset with an open claim (an entry of AllClaims)
\* transfer, burn and list by any signing account each fail with
\* NoPermission, the ownership check coming before the lock check while the
\* claim-custody account holds the asset, and none of them changes any store.
C21_ClaimedAssetNoPermission == []C21_Results /\ [][C21_NoStep]_vars

\* An asset has an open claim; its class owner, who put it there, and the
\* receiver are both turned away.
C21_Witness ==
    \E a \in Assets, r \in Users, k \in ClaimIds :
       /\ is_claiming(a)
       /\ OpenClaims[<<r, k>>] # None /\ OpenClaims[<<r, k>>].asset = a
       /\ transfer_result(r, a, TRUE) = "NoPermission"
       /\ burn_result(classOwner[a[1]], a, TRUE) = "NoPermission"

\* C22: right after create_claim succeeds for an asset, burn, transfer and
\* list on it by the account that created the claim each answer
\* NoPermission, and such a call leaves all state unchanged.
C22_CreatorLosesAsset ==
    [][\/ UNCHANGED vars
       \/ /\ \A c \in Users, r \in Users, a \in Assets :
               (create_claim_result(c, r, a, TRUE) = "Ok"
                  /\ create_claim(c, r, a, TRUE)) =>
                  /\ burn_result(c, a, TRUE)' = "NoPermission"
                  /\ transfer_result(c, a, TRUE)' = "NoPermission"
                  /\ list_result(c, a, TRUE)' = "NoPermission"
          /\ \A c \in Users, a \in Assets :
               (classOwner[a[1]] = c /\ tokenOwner[a] = ClaimAccount
                  /\ ( \/ burn(c, a, TRUE)
                       \/ \E to \in Accounts : transfer(c, to, a, TRUE)
                       \/ \E p \in Prices : list(c, a, p, TRUE) ))
                  => UNCHANGED vars]_vars

\* The newest claim is open, its asset in custody, and its creator (the
\* class owner) is refused burn, transfer and list.
C22_Witness ==
    \E a \in Assets, r \in Users, k \in ClaimIds :
       /\ k = NextClaimId - 1
       /\ OpenClaims[<<r, k>>] = [receiver |-> r, asset |-> a]
       /\ tokenOwner[a] = ClaimAccount
       /\ burn_result(classOwner[a[1]], a, TRUE) = "NoPermission"
       /\ transfer_result(classOwner[a[1]], a, TRUE) = "NoPermission"
       /\ list_result(classOwner[a[1]], a, TRUE) = "NoPermission"

C23_Results ==
    \A u \in Users, a \in Assets :
       ~check_ownership(u, a) =>
          /\ transfer_result(u, a, TRUE) = "NoPermission"
          /\ burn_result(u, a, TRUE) = "NoPermission"
          /\ list_result(u, a, TRUE) = "NoPermission"
          /\ \A r \in Users : create_claim_result(u, r, a, TRUE) = "NoPermission"

C23_NoStep ==
    \/ UNCHANGED vars
    \/ \A u \in Users, a \in Assets :
         (~check_ownership(u, a)
            /\ ( \/ \E to \in Accounts : transfer(u, to, a, TRUE)
                 \/ burn(u, a, TRUE)
                 \/ \E p \in Prices : list(u, a, p, TRUE)
                 \/ \E r \in Users : create_claim(u, r, a, TRUE) ))
            => UNCHANGED vars

\* C23: with the features enabled, transfer, burn, list and create_claim
\* called by an account the registry does not report as owner of the asset,
\* an asset or class that does not exist included, fail with NoPermission
\* and change nothing.
C23_NonOwnerRejected == []C23_Results /\ [][C23_NoStep]_vars

\* A token is held by one user; the other user, and anyone naming the asset
\* that does not exist, is refused.
C23_Witness ==
    \E h \in Users, u \in Users, a \in Assets :
       /\ u # h
       /\ tokenOwner[a] = h
       /\ tokenOwner[<<CLASS_ID_NOT_EXIST, TOKEN_ID_NOT_EXIST>>] = NoOwner
       /\ transfer_result(u, a, TRUE) = "NoPermission"
       /\ list_result(h, <<CLASS_ID_NOT_EXIST, TOKEN_ID_NOT_EXIST>>, TRUE) = "NoPermission"

C24_Results ==
    \A u \in Users, k \in ListingKeys :
       Listings[k].seller # u => unlist_result(u, k, TRUE) = "NoPermission"

C24_NoStep ==
    \/ UNCHANGED vars
    \/ \A u \in Users, k \in ListingKeys :
         (Listings[k].seller # u /\ unlist(u, k, TRUE)) => UNCHANGED vars

\* C24: unlist(caller, k) where listing k exists and caller is not its
\* seller fails with NoPermission and changes nothing: the asset stays in
\* escrow and ListingCount, AllListings, the seller's ListingsByOwner and
\* the Listings record are as before.
C24_UnlistByNonSeller == []C24_Results /\ [][C24_NoStep]_vars

\* A listing is open with its asset in escrow and the user who is not its
\* seller is refused.
C24_Witness ==
    \E u \in Users, k \in ListingKeys :
       /\ Listings[k].seller # u
       /\ tokenOwner[Listings[k].asset] = Escrow
       /\ is_listed(Listings[k].asset)
       /\ ListingCount = 1
       /\ unlist_result(u, k, TRUE) = "NoPermission"
       /\ unlist_result(Listings[k].seller, k, TRUE) = "Ok"

\* C25 as stated: unlist fails with ListingNotFound if no listing with the
\* given id exists or if the caller is not that listing's seller.
C25_MismatchIsListingNotFound ==
    \A u \in Users, k \in ListingIds :
       (Listings[k] = None \/ Listings[k].seller # u) =>
          unlist_result(u, k, TRUE) = "ListingNotFound"

C25_Results ==
    \A u \in Users, k \in ListingIds :
       /\ Listings[k] = None => unlist_result(u, k, TRUE) = "ListingNotFound"
       /\ (Listings[k] # None /\ Listings[k].seller # u) =>
             unlist_result(u, k, TRUE) = "NoPermission"

C25_NoStep ==
    \/ UNCHANGED vars
    \/ \A u \in Users, k \in ListingIds :
         (Listings[k] = None /\ unlist(u, k, TRUE)) => UNCHANGED vars

\* C25, amended: unlist fails with ListingNotFound if no listing with the
\* given id exists, changing nothing, and with NoPermission if the listing
\* exists and the caller is not its seller.
C25_UnlistErrors == []C25_Results /\ [][C25_NoStep]_vars

\* One listing id has a record and another has none: a caller who is not the
\* seller gets NoPermission for the first and ListingNotFound for the second.
C25_Witness ==
    \E u \in Users, k \in ListingIds, j \in ListingIds :
       /\ Listings[k] # None /\ Listings[k].seller # u
       /\ Listings[j] = None
       /\ unlist_result(u, k, TRUE) = "NoPermission"
       /\ unlist_result(u, j, TRUE) = "ListingNotFound"

C26_Results ==
    \A u \in Users, k \in ListingIds :
       Listings[k] = None => buy_result(u, k, TRUE) = "ListingNotFound"

C26_NoStep ==
    \/ UNCHANGED vars
    \/ \A u \in Users, k \in ListingIds :
         (Listings[k] = None /\ buy(u, k, TRUE)) => UNCHANGED vars

\* C26: buy with a listing id that has no record in Listings fails with
\* ListingNotFound and changes nothing: ListingCount, AllListings,
\* ListingsByOwner, every Listings record, OrderCount and the balances are
\* as before.
C26_BuyMissingListing == []C26_Results /\ [][C26_NoStep]_vars

\* A listing is open that a buyer could pay for, and the next id has no
\* record: buying that id finds nothing.
C26_Witness ==
    \E u \in Users, k \in ListingIds :
       /\ Listings[k] = None
       /\ k = NextListingId
       /\ ListingCount = 1
       /\ \E j \in ListingKeys : buy_result(u, j, TRUE) = "Ok"
       /\ buy_result(u, k, TRUE) = "ListingNotFound"

\* C27: transfer(caller, to, A) with transfer enabled, caller the registry
\* owner of A and A unlocked makes `to` the holder of A; burn(caller, A)
\* under the same conditions removes A from the registry; no transfer or
\* burn, successful or failed, changes Listings, AllListings,
\* ListingsByOwner, OpenClaims, AllClaims or any counter.
C27_TransferBurnFrame ==
    [][\/ UNCHANGED vars
       \/ /\ \A u \in Users, to \in Accounts, a \in Assets :
               (check_ownership(u, a) /\ ~is_locked(a) /\ transfer(u, to, a, TRUE))
                  => (transfer_result(u, a, TRUE) = "Ok" /\ tokenOwner'[a] = to)
          /\ \A u \in Users, a \in Assets :
               (check_ownership(u, a) /\ ~is_locked(a) /\ burn(u, a, TRUE))
                  => (burn_result(u, a, TRUE) = "Ok" /\ tokenOwner'[a] = NoOwner)
          /\ \A u \in Users, a \in Assets, allow \in BOOLEAN :
               ( \/ \E to \in Accounts : transfer(u, to, a, allow)
                 \/ burn(u, a, allow) )
                  => UNCHANGED <<listingStore, orderStore, claimStore>>]_vars

\* The token was minted and has been burned, after a listing and a claim
\* had been made and closed.
C27_Witness ==
    /\ nextTokenId[CLASS_ID] = TOKEN_ID + 1
    /\ tokenOwner[<<CLASS_ID, TOKEN_ID>>] = NoOwner
    /\ NextListingId > 0
    /\ NextClaimId > 0

C28_Results ==
    /\ \A u \in Users, a \in Assets :
          /\ transfer_result(u, a, FALSE) = "TransfersNotAllowed"
          /\ burn_result(u, a, FALSE) = "BurningNotAllowed"
          /\ list_result(u, a, FALSE) = "EscrowNotAllowed"
          /\ \A r \in Users : create_claim_result(u, r, a, FALSE) = "ClaimingNotAllowed"
    /\ \A u \in Users, k \in ListingIds :
          /\ unlist_result(u, k, FALSE) = "EscrowNotAllowed"
          /\ buy_result(u, k, FALSE) = "EscrowNotAllowed"
    /\ \A u \in Users, k \in ClaimIds, approve \in BOOLEAN :
          claim_result(u, k, FALSE, approve) = "ClaimingNotAllowed"

C28_NoStep ==
    \/ UNCHANGED vars
    \/ ~ \/ \E u \in Users, to \in Accounts, a \in Assets : transfer(u, to, a, FALSE)
         \/ \E u \in Users, a \in Assets : burn(u, a, FALSE)
         \/ \E u \in Users, a \in Assets, p \in Prices : list(u, a, p, FALSE)
         \/ \E u \in Users, k \in ListingIds : unlist(u, k, FALSE)
         \/ \E u \in Users, k \in ListingIds : buy(u, k, FALSE)
         \/ \E u \in Users, k \in ClaimIds, approve \in BOOLEAN :
               claim(u, k, FALSE, approve)
         \/ \E u \in Users, r \in Users, a \in Assets : create_claim(u, r, a, FALSE)

\* C28: with its feature flag false an operation fails, whatever the
\* ownership, the locks and the stored records are, and changes nothing:
\* transfer with TransfersNotAllowed, burn with BurningNotAllowed, list,
\* unlist and buy with EscrowNotAllowed, claim and create_claim with
\* ClaimingNotAllowed.
C28_FlagFirst == []C28_Results /\ [][C28_NoStep]_vars

\* The class owner holds the unlocked token, so transfer, burn, list and
\* create_claim would all pass their checks, and each is refused for its flag.
C28_Witness ==
    \E u \in Users, a \in Assets :
       /\ transfer_result(u, a, TRUE) = "Ok"
       /\ burn_result(u, a, TRUE) = "Ok"
       /\ list_result(u, a, TRUE) = "Ok"
       /\ create_claim_result(u, u, a, TRUE) = "Ok"
       /\ transfer_result(u, a, FALSE) = "TransfersNotAllowed"
       /\ burn_result(u, a, FALSE) = "BurningNotAllowed"
       /\ list_result(u, a, FALSE) = "EscrowNotAllowed"
       /\ create_claim_result(u, u, a, FALSE) = "ClaimingNotAllowed"

C29_Succeeds ==
    \A k \in ListingKeys : buy_result(Listings[k].seller, k, TRUE) = "Ok"

C29_Effects ==
    \/ UNCHANGED vars
    \/ \A k \in ListingKeys, s \in Users, a \in Assets :
         (Listings[k].seller = s /\ Listings[k].asset = a /\ buy(s, k, TRUE)) =>
            /\ tokenOwner'[a] = s
            /\ Listings'[k] = None
            /\ ~Contains(AllListings', a)
            /\ ~Contains(ListingsByOwner'[s].vec, k)
            /\ ListingCount' = ListingCount - 1
            /\ free_balance' = free_balance

\* C29: buy(S, k) where S is the seller of listing k succeeds, returns the
\* asset from escrow to S, removes listing k from Listings and all indexes,
\* lowers ListingCount by one and leaves S's balance unchanged.
C29_SellerBuysOwnListing == []C29_Succeeds /\ [][C29_Effects]_vars

\* C30: a successful buy of asset A sets OrderHistory[A] to the order
\* {listing, buyer, block} of that buy, whatever was there, and leaves the
\* other entries alone; no other step, a failed buy included, changes
\* OrderHistory.
C30_LastSaleOnly ==
    [][\/ UNCHANGED vars
       \/ /\ \A b \in Users, k \in ListingKeys, a \in Assets :
               (Listings[k].asset = a /\ buy_result(b, k, TRUE) = "Ok"
                                      /\ buy(b, k, TRUE)) =>
                  OrderHistory' = [OrderHistory EXCEPT ![a] =
                                     [listing |-> Listings[k], buyer |-> b,
                                      block |-> BlockNumber]]
          /\ OrderHistory' # OrderHistory =>
                \E b \in Users, k \in ListingKeys :
                   buy_result(b, k, TRUE) = "Ok" /\ buy(b, k, TRUE)]_vars

\* The asset has been sold twice: its entry is the order of the second sale.
C30_Witness ==
    \E a \in Assets :
       /\ OrderCount = 2
       /\ OrderHistory[a] # None
       /\ OrderHistory[a].listing.id = 1
       /\ OrderHistory[a].listing.asset = a
       /\ tokenOwner[a] = OrderHistory[a].buyer

C31_Results ==
    \A u \in Users, a \in Assets, e \in EmoteNames :
       /\ tokenOwner[a] = NoOwner => emote_result(u, a, e) = "AssetNotFound"
       /\ (tokenOwner[a] # NoOwner /\ emojis_lookup(e) = None) =>
             emote_result(u, a, e) = "InvalidEmote"
       /\ (tokenOwner[a] # NoOwner /\ emojis_lookup(e) # None) =>
             emote_result(u, a, e) = "Ok"

C31_Step ==
    \/ UNCHANGED vars
    \/ \A u \in Users, a \in Assets, e \in EmoteNames :
         emote(u, a, e) =>
            /\ emote_result(u, a, e) = "Ok" =>
                  /\ Len(Emotes'[<<a, u>>]) = Len(Emotes[<<a, u>>]) + 1
                  /\ \A key \in (Assets \X Users) \ {<<a, u>>} :
                        Emotes'[key] = Emotes[key]
            /\ emote_result(u, a, e) # "Ok" => Emotes' = Emotes
            /\ UNCHANGED <<registry, free_balance, listingStore, orderStore,
                           claimStore>>

\* C31: emote(caller, A, e) on an existing token with a recognised name
\* appends exactly one entry to Emotes[(A, caller)], whoever holds A and
\* whether or not A is locked; it fails with AssetNotFound when the token
\* does not exist and with InvalidEmote when the name is not recognised,
\* leaving Emotes unchanged; it never changes a holder, a listing store, a
\* claim store or a counter.
C31_EmoteContract == []C31_Results /\ [][C31_Step]_vars

\* The id of the claim most recently created for asset a: ids are handed out
\* in increasing order, so it is the largest id with a record for a.
LatestClaimId(a) ==
    LET ks == {key[2] : key \in {x \in ClaimKeys : OpenClaims[x].asset = a}}
    IN CHOOSE k \in ks : \A j \in ks : j <= k

\* C32: an asset leaves claim custody only to the receiver named in the
\* create_claim that most recently put it there: a claim step that takes
\* asset A out of custody is made by the receiver of the latest claim
\* created for A.
C32_OnlyLatestReceiverRedeems ==
    [][\/ UNCHANGED vars
       \/ \A r \in Users, k \in ClaimIds, a \in Assets :
            ( /\ OpenClaims[<<r, k>>] # None
              /\ OpenClaims[<<r, k>>].asset = a
              /\ tokenOwner[a] = ClaimAccount
              /\ claim(r, k, TRUE, TRUE)
              /\ tokenOwner'[a] = r ) =>
               OpenClaims[<<r, LatestClaimId(a)>>] # None]_vars

\* C33: in every reachable state, for every record in Listings with seller S
\* and id k, unlist(S, k) with escrow enabled completes successfully (and so
\* returns the asset to S).
C33_UnlistAlwaysPossible ==
    \A k \in ListingKeys : unlist_result(Listings[k].seller, k, TRUE) = "Ok"

\* C34: no call aborts on a missing index entry: unlist and buy never meet a
\* listed asset missing from AllListings and claim never meets a claimed
\* asset missing from AllClaims.
C34_NoUnwrapOnNone ==
    /\ \A u \in Users, k \in ListingIds :
          /\ unlist_result(u, k, TRUE) # "Panic"
          /\ buy_result(u, k, TRUE) # "Panic"
    /\ \A u \in Users, k \in ClaimIds : claim_result(u, k, TRUE, TRUE) # "Panic"

\* C35: in every reachable state ListingCount equals the number of records
\* in Listings and the length of AllListings.
C35_ListingCountExact ==
    /\ ListingCount = Cardinality(ListingKeys)
    /\ ListingCount = Len(AllListings)

\* C36: in every reachable state ListingsByOwner[S], when present, holds
\* exactly the ids of the Listings records whose seller is S, each once, and
\* every stored record satisfies Listings[k].id = k with k < NextListingId.
C36_OwnerIndexExact ==
    /\ \A s \in Users :
          ListingsByOwner[s] # None =>
             /\ Range(ListingsByOwner[s].vec) =
                   {k \in ListingKeys : Listings[k].seller = s}
             /\ Len(ListingsByOwner[s].vec) =
                   Cardinality(Range(ListingsByOwner[s].vec))
    /\ \A k \in ListingKeys :
          /\ ListingsByOwner[Listings[k].seller] # None
          /\ k \in Range(ListingsByOwner[Listings[k].seller].vec)
          /\ Listings[k].id = k
          /\ k < NextListingId
====
